---- MODULE Spec2Model ----
(***************************************************************************)
(* M3U8 / segment proxy.  The repository holds three generations of the    *)
(* server:                                                                 *)
(*   "legacy"  src/server.js          one route  /?url=..&referer=..       *)
(*   "basic"   src/unnamed/part_001   /m3u8-proxy, /ts-proxy, legacy route *)
(*   "robust"  src/unnamed/part_000   the same routes, validated/guarded   *)
(*                                                                         *)
(* Text is modelled as a sequence of atoms.  An atom is an indivisible run *)
(* of characters: one punctuation character ("/", ":", ".", "#", "=", the  *)
(* double quote, newline, ...) or one word of letters and digits.  Every   *)
(* pattern the code searches for ("http", ".m3u8", "#EXTM3U", 'URI="')     *)
(* is a sequence of whole atoms, so startsWith / includes / split / trim   *)
(* on atoms are the JavaScript operations on the characters.  "https" is   *)
(* the two atoms "http","s".                                               *)
(***************************************************************************)
EXTENDS Integers, Sequences, FiniteSets, TLC

(***************************************************************************)
(* String primitives (methods of String.prototype)                         *)
(***************************************************************************)
WS == {" ", "\r", "\t"}

StartsWith(s, p) == Len(s) >= Len(p) /\ SubSeq(s, 1, Len(p)) = p

Includes(s, p) == \E i \in 1..(Len(s) - Len(p) + 1) : SubSeq(s, i, i + Len(p) - 1) = p

RECURSIVE TrimStart(_)
TrimStart(s) == IF s # <<>> /\ Head(s) \in WS THEN TrimStart(Tail(s)) ELSE s

RECURSIVE TrimEnd(_)
TrimEnd(s) == IF s # <<>> /\ s[Len(s)] \in WS THEN TrimEnd(SubSeq(s, 1, Len(s) - 1)) ELSE s

Trim(s) == TrimEnd(TrimStart(s))

\* index of the first atom of s, at or after i, that lies in set c; Len(s)+1 when none
RECURSIVE FirstIn(_, _, _)
FirstIn(s, c, i) == IF i > Len(s) \/ s[i] \in c THEN i ELSE FirstIn(s, c, i + 1)

\* s.split(sep) for a one-atom separator
RECURSIVE Split(_, _)
Split(s, sep) ==
  LET k == FirstIn(s, {sep}, 1)
  IN IF k > Len(s) THEN <<s>>
     ELSE <<SubSeq(s, 1, k - 1)>> \o Split(SubSeq(s, k + 1, Len(s)), sep)

\* parts.join(sep)
RECURSIVE Join(_, _)
Join(parts, sep) ==
  IF parts = <<>> THEN <<>>
  ELSE IF Len(parts) = 1 THEN parts[1]
  ELSE parts[1] \o <<sep>> \o Join(Tail(parts), sep)

(***************************************************************************)
(* WHATWG URL (require("url").URL) for http and https URLs.                *)
(* A parsed URL is [ok, scheme, host, port, segs, hasQuery, query];        *)
(* new URL(..) throwing is ok = FALSE.                                     *)
(***************************************************************************)
BadUrl == [ok |-> FALSE, scheme |-> <<>>, host |-> <<>>, port |-> <<>>,
           segs |-> <<>>, hasQuery |-> FALSE, query |-> <<>>]

\* forbidden host code points that the model's texts can contain
ForbiddenHostAtoms == WS \cup {"^", "<", ">", "[", "]", "|", "\"", "#", "?", "/", "@", "%", "=", ","}

DefaultPort(scheme) == IF scheme = <<"http", "s">> THEN <<"443">> ELSE <<"80">>

\* the scheme of an absolute http(s) URL text, <<>> when it has none
SchemeOf(s) ==
  IF StartsWith(s, <<"http", ":">>) THEN <<"http">>
  ELSE IF StartsWith(s, <<"http", "s", ":">>) THEN <<"http", "s">>
  ELSE <<>>

RECURSIVE SkipSlashes(_)
SkipSlashes(s) == IF s # <<>> /\ Head(s) = "/" THEN SkipSlashes(Tail(s)) ELSE s

\* remove dot segments: segs are the "/"-separated pieces after the leading "/"
RECURSIVE NormSegs(_, _)
NormSegs(acc, segs) ==
  IF segs = <<>> THEN acc
  ELSE LET sg == Head(segs)
           last == Len(segs) = 1
           popped == IF acc = <<>> THEN acc ELSE SubSeq(acc, 1, Len(acc) - 1)
       IN IF sg = <<".", ".">>
            THEN NormSegs(IF last THEN popped \o <<<<>>>> ELSE popped, Tail(segs))
          ELSE IF sg = <<".">>
            THEN NormSegs(IF last THEN acc \o <<<<>>>> ELSE acc, Tail(segs))
          ELSE NormSegs(acc \o <<sg>>, Tail(segs))

\* path and query of the text that follows the authority
PathPart(t) == SubSeq(t, 1, FirstIn(t, {"?"}, 1) - 1)
HasQuery(t) == FirstIn(t, {"?"}, 1) <= Len(t)
QueryPart(t) == SubSeq(t, FirstIn(t, {"?"}, 1) + 1, Len(t))

\* the segments of a path text that starts with "/" (or is empty)
SegsOf(p) == IF p = <<>> THEN <<<<>>>> ELSE Split(Tail(p), "/")

\* the URL of a known scheme with authority "host" or "host:port" and the rest
UrlOf(scheme, host, rawPort, rest) ==
  IF host = <<>> \/ \E i \in 1..Len(host) : host[i] \in ForbiddenHostAtoms
    THEN BadUrl
  ELSE [ok |-> TRUE, scheme |-> scheme, host |-> host,
        port |-> IF rawPort = DefaultPort(scheme) THEN <<>> ELSE rawPort,
        segs |-> NormSegs(<<>>, SegsOf(PathPart(rest))),
        hasQuery |-> HasQuery(rest), query |-> QueryPart(rest)]

SplitAuthority(scheme, auth, rest) ==
  UrlOf(scheme, SubSeq(auth, 1, FirstIn(auth, {":"}, 1) - 1),
        SubSeq(auth, FirstIn(auth, {":"}, 1) + 1, Len(auth)), rest)

\* authority text, then the rest, under a known scheme
ParseAuthority(scheme, t) ==
  SplitAuthority(scheme, SubSeq(t, 1, FirstIn(t, {"/", "?"}, 1) - 1),
                 SubSeq(t, FirstIn(t, {"/", "?"}, 1), Len(t)))

\* new URL(text): throws unless text is absolute
ParseAbsolute(s, scheme) ==
  IF scheme = <<>> THEN BadUrl
  ELSE ParseAuthority(scheme, SkipSlashes(SubSeq(s, Len(scheme) + 2, Len(s))))

ParseTrimmed(s) == ParseAbsolute(s, SchemeOf(s))

ParseUrl(text) == ParseTrimmed(Trim(text))

\* new URL(ref, base): base is an absolute URL text
\* the relative reference r against the parsed base b
Relative(r, b) ==
  IF ~b.ok THEN BadUrl
  ELSE IF r = <<>> THEN b
  ELSE IF StartsWith(r, <<"/", "/">>) THEN ParseAuthority(b.scheme, SkipSlashes(r))
  ELSE IF Head(r) = "/"
    THEN [b EXCEPT !.segs = NormSegs(<<>>, SegsOf(PathPart(r))),
                   !.hasQuery = HasQuery(r), !.query = QueryPart(r)]
  ELSE IF Head(r) = "?"
    THEN [b EXCEPT !.hasQuery = TRUE, !.query = Tail(r)]
  ELSE [b EXCEPT !.segs = NormSegs(SubSeq(b.segs, 1, Len(b.segs) - 1), Split(PathPart(r), "/")),
                 !.hasQuery = HasQuery(r), !.query = QueryPart(r)]

ResolveTrimmed(r, base) ==
  IF SchemeOf(r) # <<>> THEN ParseTrimmed(r) ELSE Relative(r, ParseUrl(base))

ResolveUrl(ref, base) == ResolveTrimmed(Trim(ref), base)

\* url.origin
Origin(u) == u.scheme \o <<":", "/", "/">> \o u.host
             \o (IF u.port = <<>> THEN <<>> ELSE <<":">> \o u.port)

RECURSIVE PathText(_)
PathText(segs) == IF segs = <<>> THEN <<>> ELSE <<"/">> \o Head(segs) \o PathText(Tail(segs))

\* url.pathname + url.search
PathAndSearch(u) == PathText(u.segs) \o (IF u.hasQuery /\ u.query # <<>> THEN <<"?">> \o u.query ELSE <<>>)

\* url.href
Href(u) == Origin(u) \o PathText(u.segs) \o (IF u.hasQuery THEN <<"?">> \o u.query ELSE <<>>)

(***************************************************************************)
(* JavaScript objects and values.  An object is the sequence of its own    *)
(* enumerable <<key, value>> pairs in insertion order; a header value is   *)
(* text.  A JavaScript value that can reach the `headers` variable is      *)
(* [kind, props, elems]: kind "object" | "array" | "string" | "number" |   *)
(* "null"; props the named properties; elems the characters of a string or *)
(* the entries of an array (what object spread sees under index keys).     *)
(***************************************************************************)
Has(o, k) == \E i \in 1..Len(o) : o[i][1] = k

\* o[k]; the empty text stands for undefined (both are falsy)
Val(o, k) == IF Has(o, k) THEN o[CHOOSE i \in 1..Len(o) : o[i][1] = k][2] ELSE <<>>

\* o[k] = v
ObjSet(o, k, v) ==
  IF Has(o, k) THEN [i \in 1..Len(o) |-> IF o[i][1] = k THEN <<k, v>> ELSE o[i]]
  ELSE Append(o, <<k, v>>)

\* { ...o, ...h }
RECURSIVE Spread(_, _)
Spread(o, h) == IF h = <<>> THEN o ELSE Spread(ObjSet(o, Head(h)[1], Head(h)[2]), Tail(h))

\* a || b on texts
Or(a, b) == IF a # <<>> THEN a ELSE b

JsObject(props) == [kind |-> "object", props |-> props, elems |-> <<>>]
EmptyObject == JsObject(<<>>)

IndexKeys == <<"0", "1", "2">>

\* the own enumerable properties object spread copies out of a value
SpreadProps(v) ==
  [i \in 1..Len(v.elems) |-> <<IndexKeys[i], v.elems[i]>>] \o v.props

\* v.k for a value that is not null or undefined
GetProp(v, k) == Val(v.props, k)

\* v.k = x in sloppy mode: ignored on a primitive
SetProp(v, k, x) ==
  IF v.kind \in {"object", "array"} THEN [v EXCEPT !.props = ObjSet(v.props, k, x)] ELSE v

(***************************************************************************)
(* Node's http: ClientRequest calls setHeader(key, value) for every key of *)
(* options.headers in order, and setHeader stores under the lower-cased    *)
(* name, so the last key of a name wins.                                   *)
(***************************************************************************)
LowerCase(k) ==
  CASE k = "Referer" -> "referer"
    [] k = "Origin" -> "origin"
    [] k = "Range" -> "range"
    [] k = "Accept" -> "accept"
    [] k = "User-Agent" -> "user-agent"
    [] k = "Accept-Language" -> "accept-language"
    [] k = "X-Extra" -> "x-extra"
    [] OTHER -> k

RECURSIVE LastOf(_, _, _)
LastOf(o, name, i) ==
  IF i = 0 THEN 0 ELSE IF LowerCase(o[i][1]) = name THEN i ELSE LastOf(o, name, i - 1)

\* is header `name` (lower case) on the wire, and with which value
SendsHeader(o, name) == LastOf(o, name, Len(o)) # 0
SentHeader(o, name) == IF SendsHeader(o, name) THEN o[LastOf(o, name, Len(o))][2] ELSE <<>>

(***************************************************************************)
(* Program constants                                                       *)
(***************************************************************************)
DEFAULT_REFERER == <<"http", "s", ":", "/", "/", "megacloud", ".", "club", "/">>

\* the default referer literal of src/server.js
RAPID_CLOUD == <<"http", "s", ":", "/", "/", "rapid-cloud", ".", "co", "/">>

MAX_REDIRECTS == 5

CORS_HEADERS ==
  << <<"Access-Control-Allow-Origin", <<"*">>>>,
     <<"Access-Control-Allow-Methods", <<"GET", ",", " ", "HEAD", ",", " ", "OPTIONS">>>>,
     <<"Access-Control-Allow-Headers", <<"*">>>>,
     <<"Access-Control-Expose-Headers", <<"*">>>> >>

CORS ==
  << <<"Access-Control-Allow-Origin", <<"*">>>>,
     <<"Access-Control-Allow-Methods", <<"GET", ",", " ", "HEAD", ",", " ", "OPTIONS">>>>,
     <<"Access-Control-Allow-Headers", <<"Range", ",", " ", "Content-Type", ",", " ", "Accept">>>>,
     <<"Access-Control-Expose-Headers",
       <<"Content-Length", ",", " ", "Content-Range", ",", " ", "Accept-Ranges">>>> >>

BrowserHeaders ==
  << <<"User-Agent", <<"Mozilla">>>>, <<"Accept", <<"*", "/", "*">>>>,
     <<"Accept-Language", <<"en-US">>>> >>

JSON_TYPE == <<"application", "/", "json">>
MPEGURL_TYPE == <<"application", "/", "vnd", ".", "apple", ".", "mpegurl">>
MP2T_TYPE == <<"video", "/", "mp2t">>

(***************************************************************************)
(* validateUrl, parseHeaders                                               *)
(***************************************************************************)
WithHost(u) == IF ~u.ok \/ u.host = <<>> THEN BadUrl ELSE u

validateTrimmed(t) ==
  IF ~StartsWith(t, <<"http", ":", "/", "/">>) /\ ~StartsWith(t, <<"http", "s", ":", "/", "/">>)
    THEN BadUrl
  ELSE WithHost(ParseTrimmed(t))

validateUrl(urlString) ==
  IF urlString = <<>> THEN BadUrl ELSE validateTrimmed(Trim(urlString))

\* The `headers` query parameter is [kind, props, elems]: kind "absent" (no
\* parameter, or the empty string), "invalid" (JSON.parse throws), or the kind
\* of the value JSON.parse returns.
JsonValue(hp) == [kind |-> hp.kind, props |-> hp.props, elems |-> hp.elems]

parseHeaders(hp) ==
  IF hp.kind = "absent" THEN EmptyObject
  ELSE IF hp.kind = "invalid" THEN EmptyObject
  ELSE IF hp.kind \in {"object", "array"} THEN JsonValue(hp)
  ELSE EmptyObject

\* part_001: try { headers = JSON.parse(get("headers") || "{}") } catch (e) {}
parseHeadersBasic(hp) ==
  IF hp.kind = "absent" THEN EmptyObject
  ELSE IF hp.kind = "invalid" THEN EmptyObject
  ELSE JsonValue(hp)

\* if (!headers.Referer && !headers.referer) headers.Referer = DEFAULT_REFERER
ensureReferer(headers) ==
  IF GetProp(headers, "Referer") = <<>> /\ GetProp(headers, "referer") = <<>>
    THEN SetProp(headers, "Referer", DEFAULT_REFERER)
  ELSE headers

(***************************************************************************)
(* The request headers of an upstream attempt (options.headers)            *)
(***************************************************************************)
\* headers.Referer || headers.referer || DEFAULT_REFERER
RefererOf(headers) == Or(Or(GetProp(headers, "Referer"), GetProp(headers, "referer")), DEFAULT_REFERER)

\* headers.Origin || headers.origin
OriginOf(headers) == Or(GetProp(headers, "Origin"), GetProp(headers, "origin"))

\* new URL(referer).origin, or what the catch block puts in its place
originOr(u, fallback) == IF u.ok THEN Origin(u) ELSE fallback

\* options.headers: the browser headers, Referer, Origin, then ...headers
optionsHeaders(headers, referer, origin) ==
  Spread(BrowserHeaders \o << <<"Referer", referer>>, <<"Origin", Or(OriginOf(headers), origin)>> >>,
         SpreadProps(headers))

refererHeaders(headers, referer, fallback) ==
  optionsHeaders(headers, referer, originOr(ParseUrl(referer), fallback))

fetchUrlHeaders(headers) == refererHeaders(headers, RefererOf(headers), DEFAULT_REFERER)

\* if (req.headers.range) options.headers.Range = req.headers.range
passRange(o, range) == IF range # <<>> THEN ObjSet(o, "Range", range) ELSE o

proxyTsHeaders(headers, range) == passRange(fetchUrlHeaders(headers), range)

\* part_001 evaluates new URL(referer).origin inline: it throws on a referer
\* that is no URL, unless an Origin override short-circuits it
basicHeadersThrow(headers) == OriginOf(headers) = <<>> /\ ~ParseUrl(RefererOf(headers)).ok

fetchUrlHeadersBasic(headers) == refererHeaders(headers, RefererOf(headers), <<>>)

proxyTsHeadersBasic(headers, range) == passRange(fetchUrlHeadersBasic(headers), range)

\* src/server.js: Referer and Origin come from the target, not from `referer`
proxyRequestHeaders(u, rangeHeader) ==
  passRange(<< <<"User-Agent", <<"Mozilla">>>>,
               <<"Referer", Origin(u) \o <<"/">>>>,
               <<"Origin", Origin(u)>>,
               <<"Accept", <<"*", "/", "*">>>>,
               <<"Accept-Language", <<"en-US">>>> >>, rangeHeader)

(***************************************************************************)
(* encodeURIComponent / URLSearchParams decoding / JSON.stringify          *)
(***************************************************************************)
EncodeAtom(a) ==
  CASE a = "/" -> "%2F" [] a = ":" -> "%3A" [] a = "?" -> "%3F" [] a = "=" -> "%3D"
    [] a = "&" -> "%26" [] a = " " -> "%20" [] a = "\"" -> "%22" [] a = "{" -> "%7B"
    [] a = "}" -> "%7D" [] a = "," -> "%2C" [] a = "#" -> "%23" [] a = "%" -> "%25"
    [] a = "+" -> "%2B" [] a = "\r" -> "%0D" [] a = "[" -> "%5B" [] a = "]" -> "%5D"
    [] a = "^" -> "%5E" [] OTHER -> a

encodeURIComponent(s) == [i \in 1..Len(s) |-> EncodeAtom(s[i])]

DecodeAtom(a) ==
  CASE a = "%2F" -> "/" [] a = "%3A" -> ":" [] a = "%3F" -> "?" [] a = "%3D" -> "="
    [] a = "%26" -> "&" [] a = "%20" -> " " [] a = "%22" -> "\"" [] a = "%7B" -> "{"
    [] a = "%7D" -> "}" [] a = "%2C" -> "," [] a = "%23" -> "#" [] a = "%25" -> "%"
    [] a = "%2B" -> "+" [] a = "%0D" -> "\r" [] a = "%5B" -> "[" [] a = "%5D" -> "]"
    [] a = "%5E" -> "^" [] a = "+" -> " " [] OTHER -> a

\* what searchParams.get gives for the encoded text of one parameter
DecodeParam(s) == [i \in 1..Len(s) |-> DecodeAtom(s[i])]

\* searchParams.get(name) on the text of a URL; <<>> when the parameter is absent
QueryParam(url, name) ==
  LET q == FirstIn(url, {"?"}, 1)
      pairs == IF q > Len(url) THEN <<>> ELSE Split(SubSeq(url, q + 1, Len(url)), "&")
      hit == {i \in 1..Len(pairs) : StartsWith(pairs[i], <<name, "=">>)}
  IN IF hit = {} THEN <<>>
     ELSE LET i == CHOOSE j \in hit : \A k \in hit : j <= k
          IN DecodeParam(SubSeq(pairs[i], 3, Len(pairs[i])))

Quoted(t) == <<"\"">> \o t \o <<"\"">>

RECURSIVE Concat(_)
Concat(parts) == IF parts = <<>> THEN <<>> ELSE Head(parts) \o Concat(Tail(parts))

RECURSIVE StringifyProps(_)
StringifyProps(o) ==
  IF o = <<>> THEN <<>>
  ELSE Quoted(<<Head(o)[1]>>) \o <<":">> \o Quoted(Head(o)[2])
       \o (IF Len(o) > 1 THEN <<",">> ELSE <<>>) \o StringifyProps(Tail(o))

RECURSIVE StringifyElems(_)
StringifyElems(e) ==
  IF e = <<>> THEN <<>>
  ELSE Quoted(Head(e)) \o (IF Len(e) > 1 THEN <<",">> ELSE <<>>) \o StringifyElems(Tail(e))

\* JSON.stringify(headers): an array loses its named properties
JsonStringify(v) ==
  CASE v.kind = "object" -> <<"{">> \o StringifyProps(v.props) \o <<"}">>
    [] v.kind = "array" -> <<"[">> \o StringifyElems(v.elems) \o <<"]">>
    [] v.kind = "string" -> Quoted(Concat(v.elems))
    [] v.kind = "number" -> <<"5">>
    [] OTHER -> <<"null">>

(***************************************************************************)
(* Playlist rewriting                                                      *)
(***************************************************************************)
\* x.startsWith("http") ? x : new URL(x, targetUrl).href  -- [ok, text]
\* new URL(..).href, ok = FALSE when the constructor throws
HrefOf(u) == [ok |-> u.ok, text |-> IF u.ok THEN Href(u) ELSE <<>>]

absoluteUrl(x, targetUrl) ==
  IF StartsWith(x, <<"http">>) THEN [ok |-> TRUE, text |-> x]
  ELSE HrefOf(ResolveUrl(x, targetUrl))

UriAttr == <<"URI", "=", "\"">>

\* the matches of /URI="([^"]+)"/g in s from index i, each <<first, last>>
RECURSIVE UriMatches(_, _)
UriMatches(s, i) ==
  IF i + 2 > Len(s) THEN <<>>
  ELSE LET k == FirstIn(s, {"\""}, i + 3)
       IN IF SubSeq(s, i, i + 2) = UriAttr /\ k <= Len(s) /\ k > i + 3
            THEN <<<<i, k>>>> \o UriMatches(s, k + 1)
          ELSE UriMatches(s, i + 1)

UriOf(s, m) == SubSeq(s, m[1] + 3, m[2] - 1)

\* `${proxyBaseUrl}/${endpoint}?url=${enc(abs)}&headers=${enc(JSON.stringify(headers))}`
proxyUrl(proxyBaseUrl, endpoint, abs, headers) ==
  proxyBaseUrl \o <<"/", endpoint, "?", "url", "=">> \o encodeURIComponent(abs)
  \o <<"&", "headers", "=">> \o encodeURIComponent(JsonStringify(headers))

\* `${proxyBase}?url=${enc(abs)}&referer=${enc(referer)}` of src/server.js
legacyProxyUrl(proxyBase, abs, referer) ==
  proxyBase \o <<"?", "url", "=">> \o encodeURIComponent(abs)
  \o <<"&", "referer", "=">> \o encodeURIComponent(referer)

\* the callback of line.replace in proxyM3U8; ctx = [v, targetUrl, headers, referer, base].
\* part_000 keeps the attribute when new URL throws (part_001 lets it throw)
uriProxied(uri, abs, ctx) ==
  IF ~abs.ok THEN UriAttr \o uri \o <<"\"">>
  ELSE UriAttr \o proxyUrl(ctx.base, "ts-proxy", abs.text, ctx.headers) \o <<"\"">>

uriReplacement(uri, ctx) == uriProxied(uri, absoluteUrl(uri, ctx.targetUrl), ctx)

\* the callback of line.replace in proxyRequest (src/server.js)
uriReplacementLegacy(uri, ctx) ==
  UriAttr \o legacyProxyUrl(ctx.base, absoluteUrl(uri, ctx.targetUrl).text, ctx.referer) \o <<"\"">>

\* line.replace(/URI="([^"]+)"/g, ...): the matches ms from the k-th on are
\* replaced by what the callback returned for them, with[k], ..
RECURSIVE replaceUris(_, _, _, _, _)
replaceUris(s, ms, with, k, pos) ==
  IF k > Len(ms) THEN SubSeq(s, pos, Len(s))
  ELSE SubSeq(s, pos, ms[k][1] - 1) \o with[k] \o replaceUris(s, ms, with, k + 1, ms[k][2] + 1)

directiveLine(line, ms, ctx) ==
  replaceUris(line, ms, [i \in 1..Len(ms) |-> uriReplacement(UriOf(line, ms[i]), ctx)], 1, 1)

directiveLineLegacy(line, ms, ctx) ==
  replaceUris(line, ms, [i \in 1..Len(ms) |-> uriReplacementLegacy(UriOf(line, ms[i]), ctx)], 1, 1)

\* targetUrl.replace(/\/[^/]*$/, "") + "/"
RECURSIVE LastSlash(_, _)
LastSlash(s, i) == IF i = 0 \/ s[i] = "/" THEN i ELSE LastSlash(s, i - 1)

basePath(targetUrl) ==
  LET k == LastSlash(targetUrl, Len(targetUrl))
  IN (IF k = 0 THEN targetUrl ELSE SubSeq(targetUrl, 1, k - 1)) \o <<"/">>

\* one line of the playlist as the loop body of proxyM3U8 emits it; part_000
\* keeps a media line whose URI cannot be resolved
mediaLine(line, abs, ctx) ==
  IF ~abs.ok THEN line
  ELSE proxyUrl(ctx.base, IF Includes(abs.text, <<".", "m3u8">>) THEN "m3u8-proxy" ELSE "ts-proxy",
                abs.text, ctx.headers)

rewriteTrimmed(line, trimmed, ctx) ==
  IF trimmed = <<>> THEN line
  ELSE IF StartsWith(trimmed, <<"#">>)
    THEN IF Includes(trimmed, UriAttr)
           THEN directiveLine(line, UriMatches(line, 1), ctx)
         ELSE line
  ELSE mediaLine(line, absoluteUrl(trimmed, ctx.targetUrl), ctx)

rewriteLine(line, ctx) == rewriteTrimmed(line, Trim(line), ctx)

\* one line as the map callback of proxyRequest (src/server.js) emits it
trimmedLegacy(line, t, ctx) ==
  IF t = <<>> \/ StartsWith(t, <<"#">>)
    THEN IF Includes(line, UriAttr)
           THEN directiveLineLegacy(line, UriMatches(line, 1), ctx)
         ELSE line
  ELSE legacyProxyUrl(ctx.base,
                      IF StartsWith(t, <<"http">>) THEN t ELSE basePath(ctx.targetUrl) \o t,
                      ctx.referer)

rewriteLineLegacy(line, ctx) == trimmedLegacy(line, Trim(line), ctx)

\* does new URL(..) throw while the line is rewritten (no try/catch around it
\* in part_001 and src/server.js)
uriThrows(line, ms, ctx) ==
  \E i \in 1..Len(ms) : ~absoluteUrl(UriOf(line, ms[i]), ctx.targetUrl).ok

throwsTrimmed(line, trimmed, ctx) ==
  IF StartsWith(trimmed, <<"#">>) \/ (ctx.v = "legacy" /\ trimmed = <<>>)
    THEN Includes(IF ctx.v = "legacy" THEN line ELSE trimmed, UriAttr)
         /\ uriThrows(line, UriMatches(line, 1), ctx)
  ELSE trimmed # <<>> /\ ctx.v # "legacy" /\ ~absoluteUrl(trimmed, ctx.targetUrl).ok

lineThrows(line, ctx) == throwsTrimmed(line, Trim(line), ctx)

\* newLines.join("\n") of proxyM3U8
rewriteLines(lines, ctx) == Join([i \in 1..Len(lines) |-> rewriteLine(lines[i], ctx)], "\n")

rewritePlaylist(body, ctx) == rewriteLines(Split(body, "\n"), ctx)

\* body.split("\n").map(..).join("\n") of proxyRequest
rewriteLinesLegacy(lines, ctx) ==
  Join([i \in 1..Len(lines) |-> rewriteLineLegacy(lines[i], ctx)], "\n")

rewritePlaylistLegacy(body, ctx) == rewriteLinesLegacy(Split(body, "\n"), ctx)

linesThrow(lines, ctx) == \E i \in 1..Len(lines) : lineThrows(lines[i], ctx)

playlistThrows(body, ctx) == ctx.v # "robust" /\ linesThrow(Split(body, "\n"), ctx)

(***************************************************************************)
(* State                                                                   *)
(***************************************************************************)
VARIABLES
  variant,  \* the server generation that runs: "legacy", "basic" or "robust"
  scope,    \* the part of the input space this behaviour explores
  creq,     \* the client request being served
  call,     \* the proxy function in progress: fn, targetUrl, headers, hops
  out,      \* upstream requests issued: how many, the first, the last
  up,       \* the upstream side of the last request issued
  res,      \* the client response
  proc      \* the Node process

vars == <<variant, scope, creq, call, out, up, res, proc>>

Variants == {"legacy", "basic", "robust"}

NoText == <<>>
NoRequest == [method |-> "none", host |-> NoText, path |-> NoText, headers |-> <<>>]
NoHead == [status |-> 0, location |-> NoText, ctype |-> NoText, crange |-> NoText,
           clen |-> NoText, aranges |-> NoText]

\* the state a handler or callback works on, and what it leaves behind
Cur == [call |-> call, out |-> out, up |-> up, res |-> res, proc |-> proc, threw |-> FALSE]

Put(S) ==
  /\ call' = S.call
  /\ out' = S.out
  /\ up' = S.up
  /\ res' = S.res
  /\ proc' = S.proc

(***************************************************************************)
(* http.ServerResponse and the process                                     *)
(***************************************************************************)
\* JSON.stringify({ error: message })
ErrorJson(message) == JsonStringify(JsObject(<< <<"error", message>> >>))

\* every upstream status outside 2xx is turned into a 502
writeHeadTranslated(S, status, head) ==
  IF S.threw THEN S
  ELSE IF S.res.sent THEN [S EXCEPT !.threw = TRUE, !.res.twice = TRUE]
  ELSE [S EXCEPT !.res.sent = TRUE, !.res.status = IF status \in 200..299 THEN status ELSE 502,
                 !.res.head = head, !.res.heads = @ + 1]

\* res.writeHead(status, head): throws ERR_HTTP_HEADERS_SENT once the head is out
writeHead(S, status, head) ==
  IF S.threw THEN S
  ELSE IF S.res.sent THEN [S EXCEPT !.threw = TRUE, !.res.twice = TRUE]
  ELSE [S EXCEPT !.res.sent = TRUE, !.res.status = status, !.res.head = head,
                 !.res.heads = @ + 1]

\* res.end(body)
end(S, body) ==
  IF S.threw \/ S.res.ended THEN S
  ELSE [S EXCEPT !.res.ended = TRUE, !.res.body = body]

\* every answer goes out as a 200
respondOk(S, status, head, body) == end(writeHead(S, 200, head), body)

respond(S, status, head, body) == end(writeHead(S, status, head), body)

\* upstream.pipe(res)
pipe(S) == IF S.threw THEN S ELSE [S EXCEPT !.res.piped = TRUE]

\* an exception nobody catches: part_000 logs it in process.on("uncaughtException")
\* and goes on, the other two generations have no such handler and the process exits
uncaught(v, S) ==
  IF ~S.threw THEN S
  ELSE IF v = "robust" THEN [S EXCEPT !.threw = FALSE, !.proc.uncaught = TRUE]
  ELSE [S EXCEPT !.threw = FALSE, !.proc.alive = FALSE, !.proc.uncaught = TRUE,
                 !.up.phase = "none"]

\* catch (error) { if (!res.headersSent) { res.writeHead(500, ..); res.end(..) } }
catch500(S) ==
  IF ~S.threw THEN S
  ELSE IF S.res.sent THEN [S EXCEPT !.threw = FALSE]
  ELSE respond([S EXCEPT !.threw = FALSE], 500, CORS_HEADERS, ErrorJson(<<"Internal server error">>))

\* part_001: catch (error) { res.writeHead(500, ..); res.end(..) }, in an async
\* function: a throw in the catch block is an unhandled rejection
catch500Basic(S) ==
  IF ~S.threw THEN S
  ELSE uncaught("basic", respond([S EXCEPT !.threw = FALSE], 500, CORS_HEADERS, ErrorJson(<<"error.message">>)))

throw(S) == [S EXCEPT !.threw = TRUE]

\* lib.request(options, callback) ... req.end()
send(S, fn, targetUrl, headers, hops, request) ==
  IF S.threw THEN S
  ELSE [S EXCEPT !.call = [fn |-> fn, targetUrl |-> targetUrl, headers |-> headers, hops |-> hops,
                          settled |-> S.call.settled],
                 !.out = [n |-> @.n + 1,
                          first |-> IF @.n = 0 THEN request ELSE @.first,
                          last |-> request],
                 !.up = [phase |-> "sent", silent |-> FALSE, head |-> NoHead, body |-> NoText,
                         stale |-> S.up.stale, broke |-> S.up.broke]]

Request(method, u, headers) ==
  [method |-> method, host |-> Origin(u), path |-> PathAndSearch(u), headers |-> headers]

(***************************************************************************)
(* part_000 ("robust") and part_001 ("basic"): proxyM3U8, fetchUrl, proxyTs *)
(***************************************************************************)
\* proxyBaseUrl: PUBLIC_URL, or proto://host of the client request
ProxyBaseUrl == <<"http", ":", "/", "/", "px">>

PlaylistHead == ObjSet(CORS_HEADERS, "Content-Type", MPEGURL_TYPE)

RewrittenHead ==
  PlaylistHead \o << <<"Cache-Control", <<"no-cache">>>>, <<"Pragma", <<"no-cache">>>>,
                     <<"Expires", <<"0">>>> >>

m3u8Ctx(v, r, headers) ==
  [v |-> v, targetUrl |-> r.url, headers |-> headers, referer |-> NoText, base |-> ProxyBaseUrl]

\* the loop of proxyM3U8 over the lines and the response it ends with
m3u8Rewrite(S, body, ctx) ==
  IF playlistThrows(body, ctx) THEN throw(S)
  ELSE respond(S, 200, RewrittenHead, rewritePlaylist(body, ctx))

\* the text after `await fetchUrl(..)` in proxyM3U8; result = [null, status, body].
\* part_001 has no null result: its fetchUrl rejects and the await throws
m3u8Result(S, v, result, ctx) ==
  IF result.null
    THEN IF v = "basic" THEN throw(S)
         ELSE respond(S, 502, CORS_HEADERS, ErrorJson(<<"Failed to fetch M3U8">>))
  ELSE IF result.status # 200 THEN respond(S, result.status, CORS_HEADERS, result.body)
  ELSE IF ~Includes(result.body, <<"#", "EXTM3U">>) /\ ~Includes(result.body, <<"#", "EXTINF">>)
    THEN respond(S, 200, PlaylistHead, result.body)
  ELSE m3u8Rewrite(S, result.body, ctx)

\* the catch block of proxyM3U8
m3u8Catch(v, S) == IF v = "basic" THEN catch500Basic(S) ELSE catch500(S)

m3u8Done(S, v, r, result) ==
  m3u8Catch(v, m3u8Result(S, v, result, m3u8Ctx(v, r, S.call.headers)))

\* resolve(..) / reject(..) of the promise of fetchUrl, which every hop of one
\* fetch shares through .then(resolve): only the first call settles it
settle(S, v, r, result) ==
  IF S.call.settled THEN S
  ELSE m3u8Done([S EXCEPT !.call.settled = TRUE], v, r, result)

NullResult == [null |-> TRUE, status |-> 0, body |-> NoText]

\* fetchUrl of part_000: an invalid URL resolves null
fetchUrl(S, r, targetUrl, headers, hops) ==
  LET u == validateUrl(targetUrl)
  IN IF ~u.ok THEN settle(S, "robust", r, NullResult)
     ELSE send(S, "m3u8", targetUrl, headers, hops, Request("GET", u, fetchUrlHeaders(headers)))

\* fetchUrl of part_001: new URL(targetUrl) and new URL(referer) throw inside
\* the promise executor, which rejects the promise
fetchUrlBasic(S, r, targetUrl, headers, hops) ==
  LET u == ParseUrl(targetUrl)
  IN IF ~u.ok \/ basicHeadersThrow(headers)
       THEN settle([S EXCEPT !.call.headers = headers], "basic", r, NullResult)
     ELSE send(S, "m3u8", targetUrl, headers, hops, Request("GET", u, fetchUrlHeadersBasic(headers)))

proxyM3U8(S, r, targetUrl, headers) ==
  IF ~validateUrl(targetUrl).ok
    THEN catch500(respond(S, 400, CORS_HEADERS, ErrorJson(<<"Invalid M3U8 URL">>)))
  ELSE fetchUrl(S, r, targetUrl, headers, 0)

proxyM3U8Basic(S, r, targetUrl, headers) == fetchUrlBasic(S, r, targetUrl, headers, 0)

proxyTs(S, r, targetUrl, headers, hops) ==
  LET u == validateUrl(targetUrl)
  IN IF ~u.ok THEN catch500(respond(S, 400, CORS_HEADERS, ErrorJson(<<"Invalid segment URL">>)))
     ELSE send(S, "ts", targetUrl, headers, hops,
               Request(r.method, u, proxyTsHeaders(headers, r.range)))

proxyTsBasic(S, r, targetUrl, headers, hops) ==
  LET u == ParseUrl(targetUrl)
  IN IF ~u.ok \/ basicHeadersThrow(headers) THEN catch500Basic(throw(S))
     ELSE send(S, "ts", targetUrl, headers, hops,
               Request(r.method, u, proxyTsHeadersBasic(headers, r.range)))

\* legacyProxy of part_000
legacyProxy(S, r, targetUrl, referer) ==
  IF Includes(targetUrl, <<".", "m3u8">>) \/ Includes(targetUrl, <<"master">>)
    THEN proxyM3U8(S, r, targetUrl, JsObject(<< <<"Referer", Or(referer, DEFAULT_REFERER)>> >>))
  ELSE proxyTs(S, r, targetUrl, JsObject(<< <<"Referer", Or(referer, DEFAULT_REFERER)>> >>), 0)

\* legacyProxy of part_001
legacyProxyBasic(S, r, targetUrl, referer) ==
  IF Includes(targetUrl, <<".", "m3u8">>) \/ Includes(targetUrl, <<"master">>)
    THEN proxyM3U8Basic(S, r, targetUrl, JsObject(<< <<"Referer", Or(referer, DEFAULT_REFERER)>> >>))
  ELSE proxyTsBasic(S, r, targetUrl, JsObject(<< <<"Referer", Or(referer, DEFAULT_REFERER)>> >>), 0)

\* createServer handler of part_000, inside try { } catch { 500 }
handler(S, r) ==
  LET headers == parseHeaders(r.hparam)
  IN catch500(
       IF r.method = "OPTIONS" THEN respond(S, 204, CORS_HEADERS, NoText)
       ELSE IF r.path = "/m3u8-proxy"
         THEN IF r.url = NoText THEN respond(S, 400, CORS_HEADERS, ErrorJson(<<"URL parameter is required">>))
              ELSE proxyM3U8(S, r, r.url, ensureReferer(headers))
       ELSE IF r.path = "/ts-proxy"
         THEN IF r.url = NoText THEN respond(S, 400, CORS_HEADERS, ErrorJson(<<"URL parameter is required">>))
              ELSE proxyTs(S, r, r.url, ensureReferer(headers), 0)
       ELSE IF r.path = "/" /\ r.hasUrl
         THEN IF r.url = NoText THEN respond(S, 400, CORS_HEADERS, ErrorJson(<<"URL parameter is required">>))
              ELSE legacyProxy(S, r, r.url, Or(r.referer, DEFAULT_REFERER))
       ELSE IF r.path = "/health"
         THEN respond(S, 200, ObjSet(CORS_HEADERS, "Content-Type", JSON_TYPE), <<"ok">>)
       ELSE respond(S, 200, Spread(<< <<"Content-Type", <<"text", "/", "html">>>> >>, CORS_HEADERS),
                    <<"usage">>))

\* the two routes of part_001 that take `headers`: property access on a null
\* `headers` throws a TypeError
routeBasic(S, r, headers) ==
  IF r.url = NoText THEN respond(S, 400, CORS_HEADERS, <<"URL parameter is required">>)
  ELSE IF headers.kind = "null" THEN throw(S)
  ELSE IF r.path = "/m3u8-proxy" THEN proxyM3U8Basic(S, r, r.url, ensureReferer(headers))
  ELSE proxyTsBasic(S, r, r.url, ensureReferer(headers), 0)

\* createServer handler of part_001: no try/catch
handlerBasic(S, r) ==
  uncaught("basic",
    IF r.method = "OPTIONS" THEN respond(S, 204, CORS_HEADERS, NoText)
    ELSE IF r.path \in {"/m3u8-proxy", "/ts-proxy"} THEN routeBasic(S, r, parseHeadersBasic(r.hparam))
    ELSE IF r.path = "/" /\ r.hasUrl
      THEN IF r.url = NoText THEN respond(S, 400, CORS_HEADERS, <<"URL parameter is required">>)
           ELSE legacyProxyBasic(S, r, r.url, Or(r.referer, DEFAULT_REFERER))
    ELSE respond(S, 200, Spread(<< <<"Content-Type", <<"text", "/", "html">>>> >>, CORS_HEADERS),
                 <<"usage">>))

(***************************************************************************)
(* src/server.js ("legacy"): createServer handler and proxyRequest          *)
(***************************************************************************)
\* a 502 head without the CORS set
JsonOnly == << <<"Content-Type", JSON_TYPE>> >>

\* { "Content-Type": "application/json", ...CORS }
JsonCors == Spread(<< <<"Content-Type", JSON_TYPE>> >>, CORS)

\* referer as the handler of src/server.js computes it
legacyReferer(r) ==
  IF r.referer # NoText THEN r.referer
  ELSE IF r.url # NoText /\ ParseUrl(r.url).ok THEN Origin(ParseUrl(r.url)) \o <<"/">>
  ELSE RAPID_CLOUD

proxyRequest(S, r, targetUrl, redirectCount) ==
  LET u == ParseUrl(targetUrl)
  IN IF redirectCount > MAX_REDIRECTS
       THEN respond(S, 502, JsonCors, ErrorJson(<<"Too many redirects">>))
     ELSE IF ~u.ok THEN throw(S)
     ELSE send(S, "legacy", targetUrl, EmptyObject, redirectCount,
               Request("GET", u, proxyRequestHeaders(u, r.range)))

\* a handler that proxies every method alike
handlerAnyMethod(S, r) ==
  uncaught("legacy",
    IF r.url = NoText
      THEN respond(S, 400, Spread(<< <<"Content-Type", <<"text", "/", "plain">>>> >>, CORS),
                   <<"URL parameter is required">>)
    ELSE proxyRequest(S, r, r.url, 0))

handlerLegacy(S, r) ==
  uncaught("legacy",
    IF r.method = "OPTIONS" THEN respond(S, 204, CORS, NoText)
    ELSE IF r.method \notin {"GET", "HEAD"} THEN respond(S, 405, CORS, NoText)
    ELSE IF r.url = NoText
      THEN respond(S, 400, Spread(<< <<"Content-Type", <<"text", "/", "plain">>>> >>, CORS),
                   <<"URL parameter is required">>)
    ELSE proxyRequest(S, r, r.url, 0))

(***************************************************************************)
(* The upstream response callbacks                                         *)
(***************************************************************************)
isRedirect(h) == h.status \in {301, 302, 307, 308} /\ h.location # NoText

\* the response has been handed to the callback; resume() drains it
\* proxyRes.resume() on a redirect: the request of this hop stays open, with its
\* error and timeout handlers, until the rest of its response has arrived
drained(S) == [S EXCEPT !.up.phase = "ended", !.up.stale = TRUE]

\* the callback has the response head: it attaches its listeners or its pipe, or
\* it has thrown before, and then nothing ever reads the response
receiving(S, h) ==
  IF S.threw THEN [S EXCEPT !.up.phase = "head", !.up.head = h, !.up.silent = TRUE]
  ELSE [S EXCEPT !.up.phase = "head", !.up.head = h]

SetIf(o, k, v) == IF v # NoText THEN ObjSet(o, k, v) ELSE o

\* responseHeaders of proxyTs
tsHead(h) ==
  SetIf(SetIf(SetIf(ObjSet(CORS_HEADERS, "Content-Type", Or(h.ctype, MP2T_TYPE)),
                    "Content-Length", h.clen),
              "Content-Range", h.crange),
        "Accept-Ranges", h.aranges)

\* the callback of lib.request in proxyTs (part_000; part_001 has no try
\* around new URL(location, targetUrl))
tsResponse(S, v, r, h) ==
  LET next == absoluteUrl(h.location, S.call.targetUrl)
  IN IF isRedirect(h)
       THEN IF ~next.ok
              THEN IF v = "robust"
                     THEN uncaught(v, respond(drained(S), 502, CORS_HEADERS, ErrorJson(<<"Invalid redirect URL">>)))
                   ELSE uncaught(v, throw(drained(S)))
            ELSE IF v = "robust"
              THEN proxyTs(drained(S), r, next.text, S.call.headers, S.call.hops + 1)
            ELSE proxyTsBasic(drained(S), r, next.text, S.call.headers, S.call.hops + 1)
     ELSE uncaught(v, receiving(pipe(writeHead(S, h.status, tsHead(h))), h))

\* the callback of lib.request in fetchUrl
fetchResponse(S, v, r, h) ==
  LET next == absoluteUrl(h.location, S.call.targetUrl)
  IN IF isRedirect(h)
       THEN IF ~next.ok THEN uncaught(v, throw(drained(S)))
            ELSE IF v = "robust"
              THEN fetchUrl(drained(S), r, next.text, S.call.headers, S.call.hops + 1)
            ELSE fetchUrlBasic(drained(S), r, next.text, S.call.headers, S.call.hops + 1)
     ELSE receiving(S, h)

\* outHeaders of proxyRequest
outHeaders(h) ==
  ObjSet(SetIf(SetIf(CORS, "Content-Length", h.clen), "Content-Range", h.crange),
         "Accept-Ranges", Or(h.aranges, <<"bytes">>))

isM3u8(h, targetUrl) == Includes(h.ctype, <<"mpegurl">>) \/ Includes(targetUrl, <<".", "m3u8">>)

\* the callback of lib.request in proxyRequest
legacyResponse(S, r, h) ==
  LET next == absoluteUrl(h.location, S.call.targetUrl)
  IN uncaught("legacy",
       IF isRedirect(h)
         THEN IF ~next.ok THEN throw(drained(S))
              ELSE proxyRequest(drained(S), r, next.text, S.call.hops + 1)
       ELSE IF h.status # 200 /\ h.status # 206
         THEN receiving(pipe(writeHead(S, h.status, outHeaders(h))), h)
       ELSE IF isM3u8(h, S.call.targetUrl) THEN receiving(S, h)
       ELSE receiving(pipe(writeHead(S, h.status,
                                     ObjSet(outHeaders(h), "Content-Type", Or(h.ctype, MP2T_TYPE)))), h))

legacyCtx(r, targetUrl) ==
  [v |-> "legacy", targetUrl |-> targetUrl, headers |-> EmptyObject,
   referer |-> legacyReferer(r), base |-> ProxyBaseUrl \o <<"/">>]

legacyWrite(S, body) ==
  respond(S, S.up.head.status, ObjSet(outHeaders(S.up.head), "Content-Type", MPEGURL_TYPE), body)

legacyRewrite(S, body, ctx) ==
  IF playlistThrows(body, ctx) THEN throw(S)
  ELSE legacyWrite(S, rewritePlaylistLegacy(body, ctx))

\* upstream.on("end") of proxyRequest for a buffered playlist
legacyEnd(S, r, body) ==
  uncaught("legacy",
    IF StartsWith(body, <<"#", "EXTM3U">>) THEN legacyRewrite(S, body, legacyCtx(r, S.call.targetUrl))
    ELSE legacyWrite(S, body))

(***************************************************************************)
(* The error, timeout and end events of an upstream request                *)
(***************************************************************************)
failed(S) == [S EXCEPT !.up.phase = "failed"]

\* req.on("error") / res.on("error")
requestError(S, v, r) ==
  IF S.call.fn = "legacy"
    THEN uncaught(v, respond(failed(S), 502, JsonCors, ErrorJson(<<"err.message">>)))
  ELSE IF S.call.fn = "m3u8" THEN settle(failed(S), v, r, NullResult)
  ELSE IF S.res.sent THEN failed(S)
  ELSE respond(failed(S), 502, CORS_HEADERS, ErrorJson(<<"err.message">>))

\* req.on("timeout") of part_000: fetchUrl (30 s) and proxyTs (60 s)
requestTimeout(S, r) ==
  IF S.call.fn = "m3u8" THEN settle(failed(S), "robust", r, NullResult)
  ELSE IF S.res.sent THEN failed(S)
  ELSE respond(failed(S), 504, CORS_HEADERS, ErrorJson(<<"Request timeout">>))

\* the same handlers running for the request of an earlier redirect hop, while
\* the request of the current hop goes on
staleError(S, v, r) ==
  IF S.call.fn = "legacy" THEN uncaught(v, respond(S, 502, JsonCors, ErrorJson(<<"err.message">>)))
  ELSE IF S.call.fn = "m3u8" THEN settle(S, v, r, NullResult)
  ELSE IF S.res.sent THEN S
  ELSE respond(S, 502, CORS_HEADERS, ErrorJson(<<"err.message">>))

staleTimeout(S, r) ==
  IF S.call.fn = "m3u8" THEN settle(S, "robust", r, NullResult)
  ELSE IF S.res.sent THEN S
  ELSE respond(S, 504, CORS_HEADERS, ErrorJson(<<"Request timeout">>))

\* the upstream body is complete: pipe ends the client response, fetchUrl
\* resolves, proxyRequest rewrites what it buffered
responseEnd(S, v, r, body) ==
  LET T == [S EXCEPT !.up.phase = "ended", !.up.body = body]
  IN IF S.res.piped THEN end(T, body)
     ELSE IF S.call.fn = "legacy" THEN legacyEnd(T, r, body)
     ELSE settle(T, v, r, [null |-> FALSE, status |-> S.up.head.status, body |-> body])

(***************************************************************************)
(* The inputs: client requests, upstream response heads and bodies          *)
(***************************************************************************)
\* the most redirect hops of one client request that a behaviour explores
MaxHops == 7

Scopes == {"headers", "lifecycle", "rewrite"}

PlaylistUrl == <<"http", "s", ":", "/", "/", "cdn", "/", "a", "/", "p", ".", "m3u8">>
SegmentUrl == <<"http", "s", ":", "/", "/", "cdn", "/", "a", "/", "s", ".", "ts">>
\* a segment below a directory called master
MasterSegmentUrl == <<"http", "s", ":", "/", "/", "cdn", "/", "master", "/", "s", ".", "ts">>
InvalidUrl == <<"cdn", "/", "a", "/", "s", ".", "ts">>
Site == <<"http", "s", ":", "/", "/", "site", "/", "play">>
App == <<"http", "s", ":", "/", "/", "app">>
NotAUrl == <<"player">>
InboundRange == <<"bytes", "=", "0", "-", "9">>
OtherRange == <<"bytes", "=", "5", "-">>

Absent == [kind |-> "absent", props |-> <<>>, elems |-> <<>>]
Unusable ==
  { [kind |-> "invalid", props |-> <<>>, elems |-> <<>>],
    [kind |-> "null", props |-> <<>>, elems |-> <<>>],
    [kind |-> "number", props |-> <<>>, elems |-> <<>>],
    [kind |-> "string", props |-> <<>>, elems |-> <<<<"x">>>>] }

HeaderObjects ==
  { JsObject(<<>>),
    JsObject(<< <<"Referer", Site>> >>),
    JsObject(<< <<"referer", Site>> >>),
    JsObject(<< <<"Referer", NotAUrl>> >>),
    JsObject(<< <<"Referer", <<>>>> >>),
    JsObject(<< <<"Origin", App>> >>),
    JsObject(<< <<"Origin", <<>>>> >>),
    JsObject(<< <<"Referer", Site>>, <<"Origin", App>> >>),
    JsObject(<< <<"referer", <<>>>>, <<"Referer", Site>> >>),
    JsObject(<< <<"range", OtherRange>> >>),
    JsObject(<< <<"Range", OtherRange>>, <<"range", OtherRange>> >>),
    JsObject(<< <<"X-Token", <<"t">>>> >>) }

ClientRequest(method, path, hasUrl, url, hparam, referer, range) ==
  [method |-> method, path |-> path, hasUrl |-> hasUrl, url |-> url, hparam |-> hparam,
   referer |-> referer, range |-> range]

NoClientRequest == ClientRequest("none", "", FALSE, NoText, Absent, NoText, NoText)

Get(path, url, hparam, referer, range) == ClientRequest("GET", path, TRUE, url, hparam, referer, range)

HeaderRequests ==
  { Get("/ts-proxy", SegmentUrl, hp, NoText, rg) :
      hp \in {Absent} \cup Unusable \cup HeaderObjects, rg \in {NoText, InboundRange} }
  \cup { Get("/m3u8-proxy", PlaylistUrl, hp, NoText, NoText) :
           hp \in {Absent} \cup Unusable \cup HeaderObjects }
  \cup { Get("/", url, Absent, rf, rg) :
           url \in {SegmentUrl, PlaylistUrl, MasterSegmentUrl}, rf \in {NoText, Site, NotAUrl}, rg \in {NoText, InboundRange} }

LifecycleRequests ==
  { Get(path, url, Absent, NoText, NoText) :
      path \in {"/m3u8-proxy", "/ts-proxy", "/"}, url \in {PlaylistUrl, SegmentUrl, InvalidUrl, NoText} }
  \cup { ClientRequest(m, path, TRUE, SegmentUrl, Absent, NoText, NoText) :
           m \in {"HEAD", "POST", "OPTIONS"}, path \in {"/ts-proxy", "/m3u8-proxy", "/"} }
  \cup { ClientRequest("GET", path, FALSE, NoText, Absent, NoText, NoText) :
           path \in {"/", "/health", "/other", "/m3u8-proxy", "/ts-proxy"} }
  \cup { ClientRequest("OPTIONS", path, q[1], q[2], hp, NoText, NoText) :
           path \in {"/", "/health", "/other", "/m3u8-proxy", "/ts-proxy"},
           q \in {<<FALSE, NoText>>, <<TRUE, InvalidUrl>>, <<TRUE, PlaylistUrl>>},
           hp \in {Absent, [kind |-> "invalid", props |-> <<>>, elems |-> <<>>]} }

RewriteRequests ==
  { Get("/m3u8-proxy", PlaylistUrl, hp, NoText, NoText) : hp \in {Absent, JsObject(<< <<"Referer", Site>> >>),
                  JsObject(<< <<"Origin", App>>, <<"X-Token", <<"t">>>> >>)} }
  \cup { Get("/", PlaylistUrl, Absent, rf, NoText) : rf \in {NoText, Site} }

RequestsOf(sc) ==
  CASE sc = "headers" -> HeaderRequests
    [] sc = "lifecycle" -> LifecycleRequests
    [] sc = "rewrite" -> RewriteRequests

UpstreamHead(status, location, ctype, crange) ==
  [status |-> status, location |-> location, ctype |-> ctype, crange |-> crange,
   clen |-> IF location = NoText THEN <<"10">> ELSE NoText,
   aranges |-> IF crange = NoText THEN NoText ELSE <<"bytes">>]

\* a relative Location that leads back to the segment: a redirect cycle
LocationCycle == <<"/", "a", "/", "s", ".", "ts">>
\* an absolute Location on another host
LocationElsewhere == <<"http", "s", ":", "/", "/", "cdn2", "/", "x", "/", "seg", ".", "ts">>
\* a Location new URL(location, targetUrl) throws on
LocationBad == <<"/", "/">>
ContentRange == <<"bytes", " ", "0", "-", "9", "/", "100">>

Ok200 == UpstreamHead(200, NoText, MP2T_TYPE, NoText)
Partial206 == UpstreamHead(206, NoText, NoText, ContentRange)
Playlist200 == UpstreamHead(200, NoText, MPEGURL_TYPE, NoText)
Redirect(status, location) == UpstreamHead(status, location, NoText, NoText)
\* a 200 with chunked transfer encoding: no Content-Length
Chunked200 == [Ok200 EXCEPT !.clen = NoText]

HeadsOf(sc) ==
  CASE sc = "headers" -> {Ok200, Partial206, Redirect(302, LocationCycle), Redirect(308, LocationElsewhere)}
    [] sc = "lifecycle" ->
         {Ok200, Partial206, Playlist200, Chunked200, UpstreamHead(404, NoText, NoText, NoText),
          Redirect(302, NoText), Redirect(301, LocationCycle), Redirect(307, LocationBad)}
    [] sc = "rewrite" -> {Playlist200, UpstreamHead(200, NoText, NoText, NoText)}

Text(lines) == Join(lines, "\n")

SegmentBody == <<"data">>

\* the playlist of the usage notes: a segment named relative to the playlist
SimplePlaylist ==
  Text(<< <<"#", "EXTM3U">>, <<"#", "EXTINF", ":", "10", ",">>, <<"seg", ".", "ts">>, <<>> >>)

\* media lines of every shape: relative, parent-relative, root-relative,
\* absolute, a variant playlist, a relative name that begins with "http"
MediaPlaylist ==
  Text(<< <<"#", "EXTM3U">>, <<"seg", ".", "ts", "\r">>, <<".", ".", "/", "seg", ".", "ts">>,
          <<"/", "root", "/", "seg", ".", "ts">>, <<>>,
          <<"http", "s", ":", "/", "/", "cdn2", "/", "x", "/", "seg", ".", "ts">>,
          <<" ", "v", ".", "m3u8">>, <<"http", "seg", ".", "ts">> >>)

KeyPlaylist ==
  Text(<< <<"#", "EXTM3U">>,
          <<"#", "EXT-X-KEY", ":", "METHOD", "=", "AES", ",", "URI", "=", "\"", "key", ".", "bin", "\"",
            ",", "IV", "=", "1">>,
          <<"#", "EXT-X-MAP", ":", "URI", "=", "\"", "/", "init", ".", "mp4", "\"">>,
          <<"#", "EXT-X-MEDIA", ":", "URI", "=", "\"", "http", "s", ":", "/", "/", "cdn2", "/", "a", ".", "m3u8",
            "\"", ",", "URI", "=", "\"", "b", ".", "m3u8", "\"">>,
          <<"#", "EXT-X-ENDLIST">> >>)

HttpKeyPlaylist ==
  Text(<< <<"#", "EXTM3U">>,
          <<"#", "EXT-X-KEY", ":", "URI", "=", "\"", "http", "key", ".", "bin", "\"">> >>)

\* lines new URL throws on
BrokenPlaylist ==
  Text(<< <<"#", "EXTM3U">>, <<"#", "EXT-X-KEY", ":", "URI", "=", "\"", "/", "/", "\"">>, <<"/", "/">> >>)

\* #EXTM3U is not at the very start of the body
LatePlaylist == Text(<< <<>>, <<"#", "EXTM3U">>, <<"seg", ".", "ts">> >>)

FragmentPlaylist == Text(<< <<"#", "EXTINF", ":", "10", ",">>, <<"seg", ".", "ts">> >>)

NotAPlaylist == <<"<", "html", ">">>

BodiesOf(sc) ==
  CASE sc = "headers" -> {SegmentBody}
    [] sc = "lifecycle" -> {SegmentBody, SimplePlaylist}
    [] sc = "rewrite" -> {SimplePlaylist, MediaPlaylist, KeyPlaylist, HttpKeyPlaylist, BrokenPlaylist,
                          LatePlaylist, FragmentPlaylist, NotAPlaylist}

(***************************************************************************)
(* The state machine                                                       *)
(***************************************************************************)
\* the server listens; no request has come in
Listen ==
  [call |-> [fn |-> "none", targetUrl |-> NoText, headers |-> EmptyObject, hops |-> 0,
             settled |-> FALSE],
   out |-> [n |-> 0, first |-> NoRequest, last |-> NoRequest],
   up |-> [phase |-> "none", silent |-> FALSE, head |-> NoHead, body |-> NoText, stale |-> FALSE,
           broke |-> FALSE],
   res |-> [sent |-> FALSE, status |-> 0, head |-> <<>>, heads |-> 0, ended |-> FALSE,
            body |-> NoText, piped |-> FALSE, twice |-> FALSE,
            closed |-> FALSE],
   proc |-> [alive |-> TRUE, uncaught |-> FALSE],
   threw |-> FALSE]

Init ==
  /\ variant \in Variants
  /\ scope \in Scopes
  /\ creq = NoClientRequest
  /\ call = Listen.call
  /\ out = Listen.out
  /\ up = Listen.up
  /\ res = Listen.res
  /\ proc = Listen.proc

Handle(v, S, r) ==
  CASE v = "robust" -> handler(S, r)
    [] v = "basic" -> handlerBasic(S, r)
    [] v = "legacy" -> handlerLegacy(S, r)

\* the server accepts a client request and runs its request handler
Accept(r) ==
  /\ proc.alive
  /\ creq = NoClientRequest
  /\ creq' = r
  /\ Put(Handle(variant, Cur, r))
  /\ UNCHANGED <<variant, scope>>

Listening == proc.alive /\ ~up.silent

\* the upstream answers the last request with a response head
OnResponse(h) ==
  /\ Listening
  /\ up.phase = "sent"
  /\ isRedirect(h) => call.hops < MaxHops
  /\ Put(CASE call.fn = "ts" -> tsResponse(Cur, variant, creq, h)
           [] call.fn = "m3u8" -> fetchResponse(Cur, variant, creq, h)
           [] call.fn = "legacy" -> legacyResponse(Cur, creq, h))
  /\ UNCHANGED <<variant, scope, creq>>

\* the upstream body ends
OnEnd(body) ==
  /\ Listening
  /\ up.phase = "head"
  /\ Put(responseEnd(Cur, variant, creq, body))
  /\ UNCHANGED <<variant, scope, creq>>

\* the connection to the upstream fails, before or after the response head
OnError ==
  /\ Listening
  /\ up.phase \in {"sent", "head"}
  /\ Put(requestError(Cur, variant, creq))
  /\ UNCHANGED <<variant, scope, creq>>

\* the socket of a part_000 request has been idle for options.timeout
OnTimeout ==
  /\ proc.alive
  /\ variant = "robust"
  /\ up.phase \in {"sent", "head"}
  /\ Put(requestTimeout(Cur, creq))
  /\ UNCHANGED <<variant, scope, creq>>

\* the rest of the response of an earlier hop arrives: its request is over
OnDrained ==
  /\ Listening
  /\ up.stale
  /\ up' = [up EXCEPT !.stale = FALSE]
  /\ UNCHANGED <<variant, scope, creq, call, out, res, proc>>

\* the connection of an earlier hop fails before the rest of its response has arrived
OnStaleError ==
  /\ Listening
  /\ up.stale
  /\ Put(staleError([Cur EXCEPT !.up.stale = FALSE, !.up.broke = TRUE], variant, creq))
  /\ UNCHANGED <<variant, scope, creq>>

\* the socket of an earlier hop of part_000 has been idle for options.timeout
OnStaleTimeout ==
  /\ proc.alive
  /\ variant = "robust"
  /\ up.stale
  /\ Put(staleTimeout([Cur EXCEPT !.up.stale = FALSE, !.up.broke = TRUE], creq))
  /\ UNCHANGED <<variant, scope, creq>>

\* the client goes away before its response is complete. No program listens for
\* "close" on req or res: the request to the upstream stays as it is, and a
\* pipe into the closed response unpipes, which pauses the upstream response
OnClientClose ==
  /\ proc.alive
  /\ up.phase \in {"sent", "head"}
  /\ ~res.closed /\ ~res.ended
  /\ res' = [res EXCEPT !.closed = TRUE]
  /\ up' = [up EXCEPT !.silent = @ \/ res.piped]
  /\ UNCHANGED <<variant, scope, creq, call, out, proc>>

\* the upstream stops sending for good
Stall ==
  /\ Listening
  /\ up.phase \in {"sent", "head"}
  /\ up' = [up EXCEPT !.silent = TRUE]
  /\ UNCHANGED <<variant, scope, creq, call, out, res, proc>>

Next ==
  \/ \E r \in RequestsOf(scope) : Accept(r)
  \/ \E h \in HeadsOf(scope) : OnResponse(h)
  \/ \E b \in BodiesOf(scope) : OnEnd(b)
  \/ OnError
  \/ OnTimeout
  \/ OnDrained
  \/ OnStaleError
  \/ OnStaleTimeout
  \/ OnClientClose
  \/ Stall

Spec == Init /\ [][Next]_vars

\* the behaviours in which the upstream misbehaves at will, and every event
\* that can happen does happen
LifecycleInit == Init /\ scope = "lifecycle"

FairSpec == LifecycleInit /\ [][Next]_vars /\ WF_vars(Next)

(***************************************************************************)
(* Properties                                                              *)
(***************************************************************************)
\* the value header `name` has on the wire in the last upstream request
Sent(name) == SentHeader(out.last.headers, name)

\* C1: every outbound upstream request, the first attempt and every redirect
\* hop, carries a non-empty Referer header and a non-empty Origin header
C1_RefererAndOriginSent == out.n > 0 => Sent("referer") # NoText /\ Sent("origin") # NoText

\* an upstream request went out whose Origin header is empty
C1_EmptyOriginSent == out.n > 0 /\ SendsHeader(out.last.headers, "origin") /\ Sent("origin") = NoText

\* C2: within one client request at most MAX_REDIRECTS redirects are followed,
\* so no more than MAX_REDIRECTS + 1 upstream requests are issued
C2_AtMostFiveRedirects == out.n <= MAX_REDIRECTS + 1 /\ call.hops <= MAX_REDIRECTS

\* a sixth redirect was followed: a seventh upstream request is on its way
C2_SixthRedirectFollowed == call.hops = MAX_REDIRECTS + 1 /\ up.phase = "sent" /\ ~res.sent

\* the playlist rewriter ran on a body that contains #EXTM3U and answered 200
RewriterRan ==
  /\ res.ended /\ ~res.piped /\ res.status = 200
  /\ up.phase = "ended"
  /\ Includes(up.body, <<"#", "EXTM3U">>)
  /\ variant = "legacy" => StartsWith(up.body, <<"#", "EXTM3U">>)

InLines == Split(up.body, "\n")
OutLines == Split(res.body, "\n")

IsMediaLine(line) == Trim(line) # <<>> /\ Head(Trim(line)) # "#"
IsDirective(line) == Trim(line) # <<>> /\ Head(Trim(line)) = "#"

\* the input text resolved against the URL the playlist was fetched from
Resolved(x) == ResolveUrl(x, call.targetUrl)

\* output line i is a proxy URL whose url parameter is input line i resolved
MediaLineProxied(i) ==
  Resolved(InLines[i]).ok => QueryParam(OutLines[i], "url") = Href(Resolved(InLines[i]))

\* C3: every non-blank line of the playlist that does not start with # is
\* replaced, at its line position, by a proxy URL whose decoded url parameter
\* is the line resolved as a URI reference against the playlist's URL
C3_MediaLinesResolved ==
  RewriterRan =>
    /\ Len(OutLines) = Len(InLines)
    /\ \A i \in 1..Len(InLines) : IsMediaLine(InLines[i]) => MediaLineProxied(i)

\* a relative name that begins with "http" went out unresolved
C3_HttpNameUnresolved ==
  /\ RewriterRan
  /\ \E i \in 1..Len(InLines) :
       /\ IsMediaLine(InLines[i]) /\ SchemeOf(InLines[i]) = <<>> /\ StartsWith(InLines[i], <<"http">>)
       /\ ~MediaLineProxied(i)

\* a line with its URI="..." attributes cut out
WithoutUris(line) ==
  replaceUris(line, UriMatches(line, 1), [k \in 1..Len(UriMatches(line, 1)) |-> <<>>], 1, 1)

\* the k-th URI attribute of output line i is a proxy URL for the k-th of input line i
UriProxied(i, k) ==
  Resolved(UriOf(InLines[i], UriMatches(InLines[i], 1)[k])).ok =>
    QueryParam(UriOf(OutLines[i], UriMatches(OutLines[i], 1)[k]), "url")
      = Href(Resolved(UriOf(InLines[i], UriMatches(InLines[i], 1)[k])))

DirectiveRewritten(i) ==
  IF UriMatches(InLines[i], 1) = <<>> THEN OutLines[i] = InLines[i]
  ELSE /\ Len(UriMatches(OutLines[i], 1)) = Len(UriMatches(InLines[i], 1))
       /\ WithoutUris(OutLines[i]) = WithoutUris(InLines[i])
       /\ \A k \in 1..Len(UriMatches(InLines[i], 1)) : UriProxied(i, k)

\* C4: on a directive line every URI="..." value becomes a proxy URL whose
\* decoded target is the URI resolved against the playlist URL, the rest of
\* the line is unchanged, and a directive without URI is emitted unchanged
C4_DirectiveUrisResolved ==
  RewriterRan =>
    \A i \in 1..Len(InLines) : (i <= Len(OutLines) /\ IsDirective(InLines[i])) => DirectiveRewritten(i)

\* a URI attribute whose relative value begins with "http" went out unresolved
C4_HttpUriUnresolved ==
  /\ RewriterRan
  /\ \E i \in 1..Len(InLines) :
       /\ i <= Len(OutLines) /\ IsDirective(InLines[i]) /\ UriMatches(InLines[i], 1) # <<>>
       /\ StartsWith(UriOf(InLines[i], UriMatches(InLines[i], 1)[1]), <<"http">>)
       /\ ~DirectiveRewritten(i)

\* the client request is served as a segment: by proxyTs or by proxyRequest
SegmentRequest == call.fn \in {"ts", "legacy"} /\ out.n > 0

\* C5: a segment request with an inbound Range sends that Range on every
\* upstream request, and an upstream 206 with Content-Range reaches the
\* client as 206 with the same Content-Range
C5_RangeForwarded ==
  (SegmentRequest /\ creq.range # NoText) =>
    /\ Sent("range") = creq.range
    /\ (up.phase = "head" /\ res.piped /\ up.head.status = 206 /\ up.head.crange # NoText) =>
         res.status = 206 /\ Val(res.head, "Content-Range") = up.head.crange

\* an upstream request of a segment went out with another Range than the client's
C5_OtherRangeSent == SegmentRequest /\ creq.range # NoText /\ Sent("range") # creq.range

\* the routes of part_000 and part_001 that take the `headers` JSON
HeadersRoute == variant # "legacy" /\ creq.path \in {"/m3u8-proxy", "/ts-proxy"}

\* the referer the caller asked for: the Referer/referer key of the headers
\* JSON, or the referer parameter of the legacy route; NoText when none
ExplicitReferer ==
  IF HeadersRoute
    THEN IF creq.hparam.kind = "object"
           THEN Or(Val(creq.hparam.props, "Referer"), Val(creq.hparam.props, "referer"))
         ELSE NoText
  ELSE creq.referer

\* C6: when the caller supplies an explicit referer, the Referer header of
\* every outbound upstream request equals it
C6_ExplicitRefererSent ==
  (out.n > 0 /\ ExplicitReferer # NoText) => Sent("referer") = ExplicitReferer

\* src/server.js sent the target's origin as Referer in place of the referer parameter
C6_TargetOriginSent ==
  /\ variant = "legacy" /\ out.n > 0 /\ creq.referer = Site
  /\ Sent("referer") = Origin(ParseUrl(creq.url)) \o <<"/">>

\* the caller supplied an Origin override in the headers JSON
OriginOverridden ==
  HeadersRoute /\ creq.hparam.kind = "object" /\ SendsHeader(creq.hparam.props, "origin")

\* C7: without an Origin override the outbound Origin is the origin portion
\* (scheme, host, port) of the Referer that is sent, whatever the referer;
\* with an override the override is sent
C7_OriginOfSentReferer ==
  out.n > 0 =>
    IF OriginOverridden THEN Sent("origin") = SentHeader(creq.hparam.props, "origin")
    ELSE ParseUrl(Sent("referer")).ok /\ Sent("origin") = Origin(ParseUrl(Sent("referer")))

\* a referer that is no URL went out with the default referer literal as Origin
C7_DefaultRefererAsOrigin ==
  /\ out.n > 0 /\ ~OriginOverridden
  /\ Sent("referer") = NotAUrl /\ Sent("origin") = DEFAULT_REFERER

\* the CORS header set of the generation that runs
FixedCors == IF variant = "legacy" THEN CORS ELSE CORS_HEADERS

\* C8: every response head written to a client includes the fixed CORS header set
C8_CorsOnEveryHead ==
  res.sent => \A i \in 1..Len(FixedCors) : Val(res.head, FixedCors[i][1]) = FixedCors[i][2]

\* heads of the kinds the claim lists have been written
C8_ErrorHeadWritten == res.sent /\ res.status = 504 /\ res.heads = 1

\* the client has its complete response, or the process is gone and with it
\* the client's connection
Completed == res.ended \/ ~proc.alive

\* C9: every accepted client request eventually receives a complete response
\* or has its connection closed, whatever the upstream does
C9_EveryRequestCompletes == (creq # NoClientRequest) ~> Completed

\* the upstream never answers and nothing is left that could end the client response
C9_ClientLeftWaiting ==
  /\ creq # NoClientRequest /\ ~Completed
  /\ up.phase = "sent" /\ up.silent /\ variant # "robust"

\* the handler has just run: nothing has come back from the upstream
HandlerReturned == up.phase = "none" \/ (up.phase = "sent" /\ call.hops = 0)

\* what the handler leaves behind for the same request without `headers`
WithoutHeaders == Handle(variant, Listen, [creq EXCEPT !.hparam = Absent])

\* C10: a headers value that is no JSON object gives the same upstream
\* request and the same client response as the request without headers
C10_UnusableHeadersIgnored ==
  (creq.hparam \in Unusable /\ HandlerReturned) =>
    /\ out = WithoutHeaders.out
    /\ res = WithoutHeaders.res
    /\ proc = WithoutHeaders.proc

\* headers=null took the process of part_001 down where the plain request is proxied
C10_NullHeadersCrash ==
  /\ creq.hparam.kind = "null" /\ ~proc.alive /\ out.n = 0
  /\ WithoutHeaders.out.n = 1

\* a request to a proxy route: /m3u8-proxy, /ts-proxy or the legacy route, which
\* is "/" with a url parameter in part_000 and part_001 and every path in src/server.js
OnProxyRoute ==
  /\ creq.method \in {"GET", "HEAD"}
  /\ \/ variant = "legacy"
     \/ creq.path \in {"/m3u8-proxy", "/ts-proxy"}
     \/ creq.path = "/" /\ creq.hasUrl

\* C11: a request to a proxy route whose url parameter is missing or empty is
\* answered 400 with an error body, and no upstream request is issued for it
C11_MissingUrlIs400 ==
  (OnProxyRoute /\ creq.url = NoText) =>
    res.ended /\ res.status = 400 /\ res.body # NoText /\ out.n = 0

\* /m3u8-proxy without a url parameter has been answered 400
C11_MissingUrlAnswered ==
  /\ creq.path = "/m3u8-proxy" /\ ~creq.hasUrl /\ variant # "legacy"
  /\ res.ended /\ res.status = 400

\* the url parameter is present and is no absolute http/https URL
MalformedUrl == creq.url # NoText /\ ~ParseUrl(creq.url).ok

\* C12: a request whose url parameter is not a well-formed absolute http/https
\* URL is answered 400, never 500 and never by an unhandled exception, and no
\* upstream request is issued for it
C12_MalformedUrlIs400 ==
  (OnProxyRoute /\ MalformedUrl) =>
    res.ended /\ res.status = 400 /\ out.n = 0 /\ ~proc.uncaught

\* new URL(targetUrl) threw in proxyRequest and took the process down
C12_MalformedUrlCrash ==
  /\ variant = "legacy" /\ OnProxyRoute /\ MalformedUrl
  /\ ~proc.alive /\ ~res.sent

\* the body is JSON.stringify of an object with an error field
IsErrorJson(body) == StartsWith(body, <<"{", "\"", "error", "\"", ":">>)

\* the head carries the CORS header set of the generation that runs
HasCors(head) == \A i \in 1..Len(FixedCors) : Val(head, FixedCors[i][1]) = FixedCors[i][2]

\* C13: when the upstream request fails at network level before anything has
\* been sent to the client, the client receives 502 with a JSON error body and
\* the CORS headers, on the playlist route as on the segment route
C13_NetworkFailureIs502 ==
  [][(OnError /\ ~res.sent) =>
       (res'.ended /\ res'.status = 502 /\ IsErrorJson(res'.body) /\ HasCors(res'.head))]_vars

\* the playlist fetch of part_001 failed and the client got a 500
C13_PlaylistFailureIs500 ==
  /\ variant = "basic" /\ call.fn = "m3u8" /\ up.phase = "failed"
  /\ res.ended /\ res.status = 500 /\ res.heads = 1

\* the upstream has gone silent on the attempt in flight and the client has
\* been sent nothing: the attempt is left to its timeout
AttemptTimesOut == creq # NoClientRequest /\ up.silent /\ ~res.sent /\ proc.alive

\* C14: an upstream attempt that times out before anything has been sent to the
\* client is aborted and the client receives 504, on every route
C14_TimeoutIs504 ==
  AttemptTimesOut ~> (up.phase = "failed" /\ res.ended /\ res.status = 504)

\* the playlist fetch of part_000 timed out and the client got a 502
C14_PlaylistTimeoutIs502 ==
  /\ variant = "robust" /\ call.fn = "m3u8" /\ up.silent /\ up.phase = "failed"
  /\ res.ended /\ res.status = 502

\* the upstream's last response is complete, and it was neither a 2xx nor a
\* redirect that was followed
FinalNot2xx ==
  /\ up.phase = "ended" /\ up.head.status # 0
  /\ up.head.status \notin 200..299
  /\ ~isRedirect(up.head)

\* C15: a final upstream response whose status is neither 2xx nor a followed
\* redirect reaches the client with that status and the upstream body
\* unmodified, with no retry and no translation into a proxy error
C15_Non2xxPassedThrough ==
  FinalNot2xx =>
    /\ res.ended /\ res.status = up.head.status /\ res.body = up.body
    /\ res.heads = 1
    /\ out.n = call.hops + 1

\* a 302 without Location came back for a playlist and went to the client as it was
C15_BareRedirectPassed ==
  /\ FinalNot2xx /\ up.head.status = 302 /\ call.fn = "m3u8"
  /\ up.body = SimplePlaylist /\ res.body = SimplePlaylist /\ res.status = 302

\* the request of an earlier hop failed while the 404 of the last hop was on its
\* way, and the client of part_000 was answered 502
C15_HopFailureTranslated ==
  /\ variant = "robust" /\ call.fn = "m3u8" /\ up.broke /\ call.hops > 0
  /\ FinalNot2xx /\ up.head.status = 404 /\ res.ended /\ res.status = 502

\* C16: no failure of a single request leaves the request handler or an
\* upstream callback as an unhandled exception, and the process stays up
C16_NoUnhandledException == ~proc.uncaught /\ proc.alive

\* new URL(location, targetUrl) threw in the response callback of fetchUrl in
\* part_000: the exception reached process.on("uncaughtException") and the
\* client is left without an answer
C16_CallbackThrowEscapes ==
  /\ variant = "robust" /\ call.fn = "m3u8" /\ proc.uncaught
  /\ up.phase = "ended" /\ ~res.sent

\* a complete upstream 200 whose body the rewriter of the running generation takes on
Rewritable ==
  /\ up.body # NoText /\ ~res.piped /\ up.head.status = 200 /\ ~up.broke
  /\ IF variant = "legacy" THEN StartsWith(up.body, <<"#", "EXTM3U">>)
     ELSE Includes(up.body, <<"#", "EXTM3U">>)

\* every URI the line refers to cannot be resolved against the playlist URL
Unresolvable(line) ==
  IF IsMediaLine(line) THEN ~Resolved(Trim(line)).ok
  ELSE /\ UriMatches(line, 1) # <<>>
       /\ \A k \in 1..Len(UriMatches(line, 1)) : ~Resolved(UriOf(line, UriMatches(line, 1)[k])).ok

\* C17: rewriting keeps the number and order of lines, emits blank lines and
\* lines whose URI cannot be resolved unchanged, and still answers 200
C17_LinesPreserved ==
  Rewritable =>
    /\ res.ended /\ res.status = 200
    /\ Len(OutLines) = Len(InLines)
    /\ \A i \in 1..Len(InLines) :
         (i <= Len(OutLines) /\ (Trim(InLines[i]) = <<>> \/ Unresolvable(InLines[i])))
           => OutLines[i] = InLines[i]

\* a playlist with a line that cannot be resolved was answered 500 by part_001
C17_BrokenLineIs500 ==
  /\ variant = "basic" /\ Rewritable /\ up.body = BrokenPlaylist
  /\ res.ended /\ res.status = 500

\* a complete upstream 200 on the playlist path has been answered
Fetched200 ==
  /\ call.fn \in {"m3u8", "legacy"}
  /\ up.body # NoText /\ up.head.status = 200
  /\ proc.alive /\ res.ended /\ res.status = 200

\* the four signals of a playlist
LooksLikePlaylist ==
  \/ Includes(up.head.ctype, <<"mpegurl">>)
  \/ Includes(call.targetUrl, <<".", "m3u8">>)
  \/ Includes(up.body, <<"#", "EXTM3U">>)
  \/ Includes(up.body, <<"#", "EXTINF">>)

\* what the rewriter of the running generation makes of the upstream body
RewriterOutput ==
  IF variant = "legacy" THEN rewritePlaylistLegacy(up.body, legacyCtx(creq, call.targetUrl))
  ELSE rewritePlaylist(up.body, m3u8Ctx(variant, creq, call.headers))

\* C18: a fetched 200 body is rewritten if and only if content type, URL or body
\* mark it as a playlist; otherwise it reaches the client unchanged
C18_RewrittenIffPlaylist ==
  Fetched200 => res.body = (IF LooksLikePlaylist THEN RewriterOutput ELSE up.body)

\* src/server.js passed on, unrewritten, a playlist whose #EXTM3U is not at the start
C18_LatePlaylistUnrewritten ==
  /\ variant = "legacy" /\ Fetched200 /\ LooksLikePlaylist
  /\ up.body = LatePlaylist /\ res.body = LatePlaylist

\* the rewriter of part_000 or part_001 produced the response
EndpointRewriterRan == variant # "legacy" /\ RewriterRan

\* the endpoint a resolved URL belongs to
EndpointOf(abs) == IF Includes(abs, <<".", "m3u8">>) THEN "m3u8-proxy" ELSE "ts-proxy"

\* output line i is the proxy URL of the endpoint of input line i resolved, with
\* the resolved URL as url and the request's header set as headers
EndpointLine(i) ==
  /\ StartsWith(OutLines[i], ProxyBaseUrl \o <<"/", EndpointOf(Href(Resolved(InLines[i]))), "?">>)
  /\ QueryParam(OutLines[i], "url") = Href(Resolved(InLines[i]))
  /\ QueryParam(OutLines[i], "headers") = JsonStringify(call.headers)

\* C19: a media line becomes a /m3u8-proxy URL exactly when its resolved URL
\* contains .m3u8 and a /ts-proxy URL otherwise, and carries the resolved URL
\* in url and the request's header set in headers
C19_EndpointByResolvedUrl ==
  EndpointRewriterRan =>
    \A i \in 1..Len(InLines) :
      (i <= Len(OutLines) /\ IsMediaLine(InLines[i]) /\ Resolved(InLines[i]).ok) => EndpointLine(i)

\* a relative name that begins with "http" was put into the url parameter as it stood
C19_UnresolvedNameCarried ==
  /\ EndpointRewriterRan
  /\ \E i \in 1..Len(InLines) :
       /\ i <= Len(OutLines) /\ IsMediaLine(InLines[i]) /\ Resolved(InLines[i]).ok
       /\ QueryParam(OutLines[i], "url") = Trim(InLines[i])
       /\ Trim(InLines[i]) # Href(Resolved(InLines[i]))
       /\ QueryParam(OutLines[i], "headers") = JsonStringify(call.headers)

\* the upstream response is being streamed to the client
Streamed == res.piped /\ up.head.status # 0

\* header k of the client response is there exactly when the upstream sent v, with that value
Copied(k, v) == (Has(res.head, k) <=> v # NoText) /\ Val(res.head, k) = v

\* C20: on the segment path the client gets the upstream's status, its
\* Content-Type or video/mp2t, and Content-Length, Content-Range and
\* Accept-Ranges exactly when the upstream carries them, with its values
C20_SegmentHeadCopied ==
  Streamed =>
    /\ res.status = up.head.status
    /\ Val(res.head, "Content-Type") = Or(up.head.ctype, MP2T_TYPE)
    /\ Copied("Content-Length", up.head.clen)
    /\ Copied("Content-Range", up.head.crange)
    /\ Copied("Accept-Ranges", up.head.aranges)

\* src/server.js told the client Accept-Ranges: bytes for an upstream that sent none
C20_AcceptRangesInvented ==
  /\ variant = "legacy" /\ Streamed /\ up.head.status = 200
  /\ up.head.aranges = NoText /\ Val(res.head, "Accept-Ranges") = <<"bytes">>

\* the texts between successive pairs of double quotes of t, from index i
RECURSIVE QuotedTexts(_, _)
QuotedTexts(t, i) ==
  IF FirstIn(t, {"\""}, i) > Len(t) THEN <<>>
  ELSE <<SubSeq(t, FirstIn(t, {"\""}, i) + 1, FirstIn(t, {"\""}, FirstIn(t, {"\""}, i) + 1) - 1)>>
       \o QuotedTexts(t, FirstIn(t, {"\""}, FirstIn(t, {"\""}, i) + 1) + 1)

\* "k":"v" pairs out of the quoted texts of an object literal
PropsOf(q) == [k \in 1..(Len(q) \div 2) |-> <<q[2 * k - 1][1], q[2 * k]>>]

\* the `headers` parameter as the handlers see it: searchParams.get("headers")
\* and JSON.parse of a text that JSON.stringify wrote
JsonParse(t) ==
  IF t = <<>> THEN [kind |-> "absent", props |-> <<>>, elems |-> <<>>]
  ELSE IF Head(t) = "{" /\ t[Len(t)] = "}"
    THEN [kind |-> "object", props |-> PropsOf(QuotedTexts(t, 1)), elems |-> <<>>]
  ELSE IF Head(t) = "[" /\ t[Len(t)] = "]"
    THEN [kind |-> "array", props |-> <<>>, elems |-> QuotedTexts(t, 1)]
  ELSE IF Head(t) = "\"" /\ t[Len(t)] = "\"" /\ Len(t) >= 2
    THEN [kind |-> "string", props |-> <<>>, elems |-> [i \in 1..(Len(t) - 2) |-> <<t[i + 1]>>]]
  ELSE IF t = <<"5">> THEN [kind |-> "number", props |-> <<>>, elems |-> <<>>]
  ELSE IF t = <<"null">> THEN [kind |-> "null", props |-> <<>>, elems |-> <<>>]
  ELSE [kind |-> "invalid", props |-> <<>>, elems |-> <<>>]

\* the route a proxy URL of this server leads to
RouteOf(url) ==
  IF Len(url) >= Len(ProxyBaseUrl) + 2 /\ url[Len(ProxyBaseUrl) + 2] = "m3u8-proxy" THEN "/m3u8-proxy"
  ELSE IF Len(url) >= Len(ProxyBaseUrl) + 2 /\ url[Len(ProxyBaseUrl) + 2] = "ts-proxy" THEN "/ts-proxy"
  ELSE "/"

\* the GET request a player makes for a proxy URL it found in a playlist
PlayerRequest(url) ==
  Get(RouteOf(url), QueryParam(url, "url"), JsonParse(QueryParam(url, "headers")),
      QueryParam(url, "referer"), NoText)

\* the proxy URLs a player finds in the rewritten playlist: on the media lines
\* and in the URI attributes of the directives
EmittedUrls ==
  { Trim(OutLines[i]) : i \in {j \in 1..Len(OutLines) : IsMediaLine(OutLines[j])
                                                      /\ StartsWith(Trim(OutLines[j]), ProxyBaseUrl)} }
  \cup UNION { { UriOf(OutLines[i], UriMatches(OutLines[i], 1)[k]) :
                   k \in {n \in 1..Len(UriMatches(OutLines[i], 1)) :
                            StartsWith(UriOf(OutLines[i], UriMatches(OutLines[i], 1)[n]), ProxyBaseUrl)} } :
               i \in {j \in 1..Len(OutLines) : IsDirective(OutLines[j])} }

\* what the request handler does for the player's request to an emitted URL
FollowUp(url) == Handle(variant, Listen, PlayerRequest(url))

\* the headers of an upstream request as they are on the wire
Wire(o) == { <<LowerCase(o[i][1]), SentHeader(o, LowerCase(o[i][1]))>> : i \in 1..Len(o) }

\* C21: the upstream request made for any proxy URL emitted into a rewritten
\* playlist carries the same Referer, Origin and extra headers as the fetch of
\* the playlist did
C21_HeaderSetRoundTrip ==
  RewriterRan =>
    \A u \in EmittedUrls :
      FollowUp(u).out.n > 0 => Wire(FollowUp(u).out.first.headers) = Wire(out.first.headers)

\* src/server.js fetched the playlist with one Referer and fetches a segment it
\* emitted, on another host, with another
C21_RefererFollowsTarget ==
  /\ variant = "legacy" /\ RewriterRan
  /\ \E u \in EmittedUrls :
       /\ FollowUp(u).out.n = 1
       /\ SentHeader(FollowUp(u).out.first.headers, "referer") # SentHeader(out.first.headers, "referer")

\* the step follows redirect h: one more upstream request goes out
Follows(h) == OnResponse(h) /\ isRedirect(h) /\ out'.n = out.n + 1

\* C22: a redirect hop is issued with the headers and the method of the first
\* attempt of the client request, to the Location resolved against the URL
\* that was just fetched
C22_HopRepeatsRequest ==
  [][\A h \in HeadsOf(scope) :
       Follows(h) =>
         /\ out'.last.method = out.first.method
         /\ Wire(out'.last.headers) = Wire(out.first.headers)
         /\ call'.targetUrl = Href(ResolveUrl(h.location, call.targetUrl))
         /\ out'.last.host = Origin(ParseUrl(call'.targetUrl))
         /\ out'.last.path = PathAndSearch(ParseUrl(call'.targetUrl))]_vars

\* src/server.js followed a redirect to another host and changed Referer and Origin with it
C22_HopChangedReferer ==
  /\ variant = "legacy" /\ out.n = 2 /\ call.targetUrl = LocationElsewhere
  /\ SentHeader(out.last.headers, "referer") # SentHeader(out.first.headers, "referer")
  /\ SentHeader(out.last.headers, "origin") # SentHeader(out.first.headers, "origin")

\* the client request is on the legacy route of part_000 or part_001
OnLegacyRoute ==
  /\ variant \in {"robust", "basic"} /\ creq.method \in {"GET", "HEAD"}
  /\ creq.path = "/" /\ creq.hasUrl /\ creq.url # NoText

\* the file name of the URL ends in .m3u8
NamesPlaylist(url) ==
  LET segs == ParseUrl(url).segs
      name == IF segs = <<>> THEN <<>> ELSE segs[Len(segs)]
  IN Len(name) >= 2 /\ SubSeq(name, Len(name) - 1, Len(name)) = <<".", "m3u8">>

\* the request on a new route that the legacy request r stands for
NewRouteRequest(r) ==
  ClientRequest(r.method, IF NamesPlaylist(r.url) THEN "/m3u8-proxy" ELSE "/ts-proxy", TRUE, r.url,
                JsObject(<< <<"Referer", Or(r.referer, DEFAULT_REFERER)>> >>), NoText, r.range)

\* C23: a request on the legacy route is handled as the same request on
\* /m3u8-proxy (playlist URL) or /ts-proxy (any other URL) with the header set
\* {Referer: referer or the default}; a segment is streamed with its Range
C23_LegacyRouteEquivalent ==
  OnLegacyRoute => Handle(variant, Listen, creq) = Handle(variant, Listen, NewRouteRequest(creq))

\* a ranged segment request on the legacy route took the playlist path and lost its Range
C23_SegmentBuffered ==
  /\ OnLegacyRoute /\ creq.url = MasterSegmentUrl /\ creq.range = InboundRange
  /\ call.fn = "m3u8" /\ out.n = 1 /\ ~SendsHeader(out.first.headers, "range")
  /\ Handle(variant, Listen, NewRouteRequest(creq)).call.fn = "ts"
  /\ SentHeader(Handle(variant, Listen, NewRouteRequest(creq)).out.first.headers, "range") = InboundRange

\* C24: an OPTIONS request, whatever its path and query, is answered with 204,
\* the CORS headers alone and an empty body, and no upstream request is made
C24_PreflightIs204 ==
  creq.method = "OPTIONS" =>
    /\ res.sent /\ res.ended /\ res.heads = 1 /\ res.status = 204
    /\ res.head = FixedCors /\ res.body = NoText
    /\ out.n = 0 /\ up.phase = "none" /\ call.fn = "none"

\* a preflight to a proxy route with a target and an unusable headers parameter was answered
C24_PreflightAnswered ==
  /\ creq.method = "OPTIONS" /\ creq.path = "/m3u8-proxy" /\ creq.url = PlaylistUrl
  /\ creq.hparam.kind = "invalid" /\ res.ended /\ res.status = 204

\* the upstream of a response whose head is out fails or times out
LateFailure == (OnError \/ OnTimeout) /\ res.sent /\ ~res.ended

\* the response that was being streamed when the upstream failed
Truncated == up.phase = "failed" /\ res.piped

\* C25: an upstream error or timeout after the response head has been sent
\* starts no second response, and the response to the client is then closed
C25_LateFailureClosesResponse ==
  /\ [][LateFailure => (res'.heads = res.heads /\ ~proc'.uncaught)]_vars
  /\ Truncated ~> res.ended

\* part_000 has stopped reading a failed upstream and has not closed the response it was streaming
C25_ResponseLeftOpen ==
  /\ variant = "robust" /\ Truncated /\ res.sent /\ ~res.ended /\ proc.alive
  /\ ~ENABLED Next

\* C26: whatever the order of the upstream events of a client request, the
\* events of an earlier redirect hop included, one response head is written at
\* most and writeHead is never called on a response whose head is out
C26_HeadWrittenOnce == res.heads <= 1 /\ ~res.twice

\* part_000 answered the failure of an earlier hop and then called writeHead for the response of the last hop
C26_HeadAfterHopFailure ==
  /\ variant = "robust" /\ call.fn = "ts" /\ up.broke /\ call.hops > 0
  /\ res.ended /\ res.status = 502 /\ res.twice /\ proc.uncaught

\* the client has gone and the request to the upstream is still running
Abandoned == res.closed /\ up.phase \in {"sent", "head"}

\* C27: once the client has disconnected, an upstream request that is in
\* flight or being streamed for it is eventually aborted, not read to its end
C27_UpstreamAborted == Abandoned ~> up.phase = "failed"

\* the client of part_000 left during the fetch and the upstream was read to its end
C27_FetchedForNobody ==
  /\ variant = "robust" /\ res.closed /\ up.phase = "ended" /\ up.body # NoText
  /\ call.fn = "m3u8" /\ call.hops = 0 /\ ~up.broke

\* the callback of the upstream request that the follow-up request S made
FollowUpHead(S, r, h) ==
  CASE S.call.fn = "ts" -> tsResponse(S, variant, r, h)
    [] S.call.fn = "m3u8" -> fetchResponse(S, variant, r, h)
    [] S.call.fn = "legacy" -> legacyResponse(S, r, h)
    [] OTHER -> S

\* the answer to the player's request for an emitted URL when the upstream
\* sends head h and then body
FollowUpAnswer(u, h, body) ==
  responseEnd(FollowUpHead(FollowUp(u), PlayerRequest(u), h), variant, PlayerRequest(u), body).res

\* every media line of the playlist text is a URL of this proxy
AllProxied(text) ==
  \A i \in 1..Len(Split(text, "\n")) :
    IsMediaLine(Split(text, "\n")[i]) => StartsWith(Trim(Split(text, "\n")[i]), ProxyBaseUrl)

\* C28: a playlist that a rewritten playlist refers to, on a media line or in a
\* URI attribute, is itself rewritten when it is fetched through the proxy URL
\* emitted for it
C28_NestedPlaylistRewritten ==
  RewriterRan =>
    \A u \in EmittedUrls :
      NamesPlaylist(QueryParam(u, "url")) =>
        /\ FollowUpAnswer(u, Playlist200, SimplePlaylist).status = 200
        /\ AllProxied(FollowUpAnswer(u, Playlist200, SimplePlaylist).body)

\* part_000 emitted a /ts-proxy URL for the playlist of an EXT-X-MEDIA directive, and that route pipes the playlist through as it is
C28_RenditionUnrewritten ==
  /\ variant = "robust" /\ RewriterRan /\ up.body = KeyPlaylist
  /\ \E u \in EmittedUrls :
       /\ QueryParam(u, "url") = <<"http", "s", ":", "/", "/", "cdn2", "/", "a", ".", "m3u8">>
       /\ RouteOf(u) = "/ts-proxy"
       /\ FollowUpAnswer(u, Playlist200, SimplePlaylist).piped
       /\ FollowUpAnswer(u, Playlist200, SimplePlaylist).body = SimplePlaylist

\* C29: every request to an upstream is a GET or a HEAD, whatever the method
\* and the route of the client request
C29_UpstreamGetOrHead ==
  out.n > 0 => out.first.method \in {"GET", "HEAD"} /\ out.last.method \in {"GET", "HEAD"}

\* part_000 passed the POST of a client on to the upstream
C29_PostForwarded ==
  /\ variant = "robust" /\ creq.method = "POST" /\ creq.path = "/ts-proxy"
  /\ out.n = 1 /\ out.first.method = "POST" /\ out.first.host = Origin(ParseUrl(SegmentUrl))

====
